---- MODULE Spec2Model ----
(***************************************************************************)
(* Model of internal/relay/relay-server.go: the process-wide registry of   *)
(* relay allocations (`servers`, guarded by `serversLock`), the public     *)
(* operations Start, Fulfilled, AddPermission, GetSrcForRelay,             *)
(* GetRelayForSrc, AddChannelBind and GetChannelBind called from           *)
(* concurrent request handlers, and one relayHandler goroutine per         *)
(* allocation.                                                             *)
(*                                                                         *)
(* A caller is a thread with a program counter; every step between two     *)
(* lock operations of the source is one action.  A *server is the index of *)
(* the allocation in `servers` (the slice is only ever appended to, so an  *)
(* index is a stable reference).  reservationToken, username and lifetime  *)
(* are stored by Start and read by nothing, so they carry no state here.   *)
(***************************************************************************)
EXTENDS Integers, Sequences, FiniteSets, TLC

\* ------------------------------------------------------------------ bounds
MaxServers == 2        \* allocations the registry may grow to
MaxDatagrams == 2      \* datagrams (or read errors) delivered to the pumps

\* --------------------------------------------------------- program constants
RtpMTU == 1500         \* size of the pump's read buffer
UDP == 0
TCP == 1

None == "none"         \* nil / no value

\* The request handlers that call the public operations: two goroutines, so
\* that every operation runs against one concurrent other.
Threads == {1, 2}

\* The request handler that creates the allocations in the workloads that
\* study what is done to an allocation once it is registered.
Allocator == {t \in Threads : \A u \in Threads : t <= u}

\* stun.TransportAddr values: an IP and a port, compared by value.
Addr(ip, port) == [IP |-> ip, Port |-> port]

\* a.Equal(b) of stun.TransportAddr: IP.Equal and equal ports.
AddrEqual(a, b) == a.IP = b.IP /\ a.Port = b.Port

\* Client and server addresses the five-tuples are built from.
Client1 == Addr("10.0.0.1", 5000)
Client2 == Addr("10.0.0.2", 5000)
Server1 == Addr("192.0.2.1", 3478)
Server2 == Addr("192.0.2.2", 3478)

FT(src, dst, proto) == [SrcAddr |-> src, DstAddr |-> dst, Protocol |-> proto]

\* The five-tuples callers pass in: two share the client source address,
\* two differ in the protocol alone.
FiveTuples ==
  { FT(Client1, Server1, UDP), FT(Client1, Server1, TCP), FT(Client2, Server2, UDP) }

\* Two clients of one server, for the workloads that need no more than two
\* distinct five-tuples.
TwoClients == { FT(Client1, Server1, UDP), FT(Client2, Server1, UDP) }

SrcAddrs == {Client1, Client2}

\* Peer addresses: two share the port, two share the IP.
Peer1 == Addr("198.51.100.1", 9000)
Peer2 == Addr("198.51.100.2", 9000)
Peer3 == Addr("198.51.100.1", 9001)
Peers == {Peer1, Peer2, Peer3}
PeerPorts == {9000, 9001}

\* Peers that send datagrams to the relayed ports.
Senders == {Peer1, Peer3}

\* Peers that channels are bound to.
BoundPeers == {Peer1, Peer3}

Perm(ip, port, tte) == [IP |-> ip, Port |-> port, TimeToExpiry |-> tte]

\* The permissions callers pass in: the same peer with two expiries, and a
\* second peer.
Permissions ==
  { Perm("198.51.100.1", 9000, 300), Perm("198.51.100.1", 9000, 600),
    Perm("198.51.100.2", 9000, 300) }

\* The AddPermission calls of two clients of one server: the first client
\* grants every permission, the second client the first peer's.
ClientGrants ==
  ({FT(Client1, Server1, UDP)} \X Permissions)
    \cup {<<FT(Client2, Server1, UDP), Perm("198.51.100.1", 9000, 300)>>}

Channels == {16384, 16385}

\* Ports the operating system hands out for ":0": as many as the registry
\* may hold allocations.
EphemeralPorts == 1..MaxServers

\* The first of them.
FirstPort == {p \in EphemeralPorts : \A q \in EphemeralPorts : p <= q}

\* Ports callers query: every ephemeral port and one that is never assigned.
QueryPorts == 0..MaxServers

\* Payload sizes of peer datagrams, in bytes; the bytes themselves are left
\* abstract, so a prefix of a payload is identified by its length.
PayloadLens == {RtpMTU, RtpMTU + 1}

Min(a, b) == IF a < b THEN a ELSE b

VARIABLES
  servers,      \* the registry slice: sequence of *server
  serversLock,  \* sync.RWMutex: [w: writer or None, r: set of readers]
  th,           \* per thread: the call in progress and its locals
  pumps,        \* relayHandler goroutines in spawn order: the allocation, the
                \* datagrams read, the indications handed to BuildAndSend,
                \* the sends that failed, the failed reads
  crashed       \* the process died of a runtime panic / fatal error

vars == <<servers, serversLock, th, pumps, crashed>>

Nil == 0               \* the nil *server
NoThread == 0          \* an unheld mutex
NilAddr == [IP |-> "nil", Port |-> 0]   \* the nil *stun.TransportAddr

\* ------------------------------------------------------- pure scans of the code

\* match with the source address forgotten.
matchDstOnly(a, b) == AddrEqual(a.DstAddr, b.DstAddr) /\ a.Protocol = b.Protocol

\* match with the destination address and the protocol forgotten.
matchSrcOnly(a, b) == AddrEqual(a.SrcAddr, b.SrcAddr)

\* FiveTuple.match: source address, destination address and protocol are equal.
match(a, b) ==
  /\ AddrEqual(a.SrcAddr, b.SrcAddr)
  /\ AddrEqual(a.DstAddr, b.DstAddr)
  /\ a.Protocol = b.Protocol

\* The loop of getServer from index i on: every match overwrites the result,
\* so the last matching entry wins; Nil when nothing matches.
RECURSIVE getServerFrom(_, _, _, _)
getServerFrom(srvs, fiveTuple, i, server) ==
  IF i > Len(srvs) THEN server
  ELSE getServerFrom(srvs, fiveTuple, i + 1,
                     IF match(fiveTuple, srvs[i].FiveTuple) THEN i ELSE server)

\* getServer with a loop that stops at the first match.
getServerFirst(srvs, fiveTuple) ==
  IF \E i \in 1..Len(srvs) : match(fiveTuple, srvs[i].FiveTuple)
  THEN CHOOSE i \in 1..Len(srvs) :
         /\ match(fiveTuple, srvs[i].FiveTuple)
         /\ \A j \in 1..(i - 1) : ~match(fiveTuple, srvs[j].FiveTuple)
  ELSE Nil

getServer(srvs, fiveTuple) == getServerFrom(srvs, fiveTuple, 1, Nil)

\* The loop of GetSrcForRelay from index i on: returns at the first entry
\* listening on the port.
RECURSIVE SrcForRelayFrom(_, _, _)
SrcForRelayFrom(srvs, port, i) ==
  IF i > Len(srvs) THEN [val |-> NilAddr, err |-> "No Relay is listening on port"]
  ELSE IF port = srvs[i].listeningPort
       THEN [val |-> srvs[i].FiveTuple.SrcAddr, err |-> None]
       ELSE SrcForRelayFrom(srvs, port, i + 1)

\* GetSrcForRelay with a loop that skips the first entry.
SrcForRelaySkipFirst(srvs, port) == SrcForRelayFrom(srvs, port, 2)

SrcForRelay(srvs, port) == SrcForRelayFrom(srvs, port, 1)

\* The loop of GetRelayForSrc from index i on: returns at the first entry
\* whose client source address equals addr.
RECURSIVE RelayForSrcFrom(_, _, _)
RelayForSrcFrom(srvs, addr, i) ==
  IF i > Len(srvs) THEN [val |-> 0, err |-> "No Relay is allocated to this src"]
  ELSE IF AddrEqual(srvs[i].FiveTuple.SrcAddr, addr)
       THEN [val |-> srvs[i].listeningPort, err |-> None]
       ELSE RelayForSrcFrom(srvs, addr, i + 1)

\* GetRelayForSrc comparing the port of the address alone (the value its
\* error message prints).
RECURSIVE RelayForSrcByPortFrom(_, _, _)
RelayForSrcByPortFrom(srvs, addr, i) ==
  IF i > Len(srvs) THEN [val |-> 0, err |-> "No Relay is allocated to this src"]
  ELSE IF srvs[i].FiveTuple.SrcAddr.Port = addr.Port
       THEN [val |-> srvs[i].listeningPort, err |-> None]
       ELSE RelayForSrcByPortFrom(srvs, addr, i + 1)

RelayForSrcByPort(srvs, addr) == RelayForSrcByPortFrom(srvs, addr, 1)

\* GetRelayForSrc with getServer's loop: no return inside it, the last entry
\* with the source address wins.
RECURSIVE RelayForSrcLastFrom(_, _, _, _)
RelayForSrcLastFrom(srvs, addr, i, found) ==
  IF i > Len(srvs) THEN found
  ELSE RelayForSrcLastFrom(srvs, addr, i + 1,
         IF AddrEqual(srvs[i].FiveTuple.SrcAddr, addr)
         THEN [val |-> srvs[i].listeningPort, err |-> None]
         ELSE found)

RelayForSrcLast(srvs, addr) ==
  RelayForSrcLastFrom(srvs, addr, 1,
                      [val |-> 0, err |-> "No Relay is allocated to this src"])

RelayForSrc(srvs, addr) == RelayForSrcFrom(srvs, addr, 1)

\* The loop of GetChannelBind from index i on: the first entry that has the
\* channel bound to an address with port srcPort.
RECURSIVE ChannelBindFrom(_, _, _, _)
ChannelBindFrom(srvs, srcPort, channel, i) ==
  IF i > Len(srvs) THEN [val |-> NilAddr, ok |-> FALSE]
  ELSE IF /\ channel \in DOMAIN srvs[i].channelBindings
          /\ srvs[i].channelBindings[channel].addr.Port = srcPort
       THEN [val |-> srvs[i].FiveTuple.SrcAddr, ok |-> TRUE]
       ELSE ChannelBindFrom(srvs, srcPort, channel, i + 1)

\* GetChannelBind with a loop that keeps the last entry found instead of
\* returning at the first.
RECURSIVE ChannelBindLastFrom(_, _, _, _, _)
ChannelBindLastFrom(srvs, srcPort, channel, i, found) ==
  IF i > Len(srvs) THEN found
  ELSE ChannelBindLastFrom(srvs, srcPort, channel, i + 1,
         IF /\ channel \in DOMAIN srvs[i].channelBindings
            /\ srvs[i].channelBindings[channel].addr.Port = srcPort
         THEN [val |-> srvs[i].FiveTuple.SrcAddr, ok |-> TRUE]
         ELSE found)

ChannelBindLast(srvs, srcPort, channel) ==
  ChannelBindLastFrom(srvs, srcPort, channel, 1, [val |-> NilAddr, ok |-> FALSE])

ChannelBindOf(srvs, srcPort, channel) == ChannelBindFrom(srvs, srcPort, channel, 1)

\* The loop of AddChannelBind: the next entry at or after index i that listens
\* on relayPort; Nil when the loop runs off the end.
RECURSIVE NextOnPort(_, _, _)
NextOnPort(srvs, relayPort, i) ==
  IF i > Len(srvs) THEN Nil
  ELSE IF srvs[i].listeningPort = relayPort THEN i
       ELSE NextOnPort(srvs, relayPort, i + 1)

\* The dedup loop comparing whole permissions, expiry included.
HasSamePermission(perms, permission) ==
  \E k \in 1..Len(perms) : perms[k] = permission

\* The dedup loop of AddPermission: an entry with the same port and IP exists.
HasPermission(perms, permission) ==
  \E k \in 1..Len(perms) :
    perms[k].Port = permission.Port /\ perms[k].IP = permission.IP

\* The body of AddPermission under permissionsLock: return early on a
\* duplicate, append otherwise.
PermissionsAfterAdd(perms, permission) ==
  IF HasPermission(perms, permission) THEN perms ELSE Append(perms, permission)

\* map[uint16]ChannelBind: a function whose domain is the set of bound channels.
EmptyMap == [c \in {} |-> [addr |-> NilAddr]]

\* The assignment keeping the binding a channel already has.
MapSetIfAbsent(m, channel, dstAddr) ==
  [c \in DOMAIN m \cup {channel} |-> IF c \in DOMAIN m THEN m[c] ELSE [addr |-> dstAddr]]

\* m[channel] = ChannelBind{addr: dstAddr}: insert, or overwrite an existing key.
MapSet(m, channel, dstAddr) ==
  [c \in DOMAIN m \cup {channel} |-> IF c = channel THEN [addr |-> dstAddr] ELSE m[c]]

\* The server Start constructs: empty permissions, empty channel map.
NewServer(fiveTuple, port) ==
  [ FiveTuple       |-> fiveTuple,
    listeningPort   |-> port,
    permissionsLock |-> NoThread,
    permissions     |-> <<>>,
    channelBindings |-> EmptyMap ]

\* What the pump reads for a datagram of len bytes: at most the buffer.
ReadLen(len) == Min(len, RtpMTU)

\* The Data indication the pump builds for a read of n bytes from srcAddr.
Indication(s, srcAddr, n) ==
  [ to     |-> servers[s].FiveTuple.SrcAddr,
    class  |-> "indication",
    method |-> "data",
    peer   |-> Addr(srcAddr.IP, srcAddr.Port),
    data   |-> n ]

\* ------------------------------------------------------------ thread state

\* A thread before its first call, or the record of its current or last call:
\* the operation, its arguments, the *server local `s`, the value returned,
\* and `pre`, what the call found when it began: for Fulfilled, that a
\* matching allocation was registered; for AddChannelBind, that an allocation
\* listening on the relay port had the channel bound to another address.
NoArgs == [ft |-> None, perm |-> None, port |-> None, ch |-> None, addr |-> None]

Idle ==
  [pc |-> "idle", op |-> None, arg |-> NoArgs, s |-> Nil, pre |-> FALSE, res |-> None]

\* A thread may begin a call when it is not inside one.
Free(t) == th[t].pc \in {"idle", "ret"}

Alive == ~crashed

\* serversLock.RLock(): granted while no writer holds the lock.
CanRLock == serversLock.w = NoThread

\* Lock() granted while readers are inside, as RLock() is.
CanLockAmongReaders == serversLock.w = NoThread

\* serversLock.Lock(): granted while nobody holds the lock.
CanLock == serversLock.w = NoThread /\ serversLock.r = {}

RLocked(t) == [serversLock EXCEPT !.r = @ \cup {t}]
RUnlocked(t) == [serversLock EXCEPT !.r = @ \ {t}]

Init ==
  /\ servers = <<>>
  /\ serversLock = [w |-> NoThread, r |-> {}]
  /\ th = [t \in Threads |-> Idle]
  /\ pumps = <<>>
  /\ crashed = FALSE

\* The call record of a thread entering operation op at program counter pc.
Enter(pc, op, arg) ==
  [pc |-> pc, op |-> op, arg |-> arg, s |-> Nil, pre |-> FALSE, res |-> None]

\* Thread t returns res from the call it is in; the record of the call stays
\* with the thread until it makes its next call.
Return(t, res) == th' = [th EXCEPT ![t].pc = "ret", ![t].res = res]

\* ------------------------------------------------------------------- Start

\* Starts that will append and have not yet.
Starting == {u \in Threads : th[u].pc \in {"s_listen", "s_lock", "s_append"}}

\* Ports of the sockets Start has opened for allocations: the registered
\* ones and those of the Starts on their way to the registry.
PortsInUse ==
  {servers[i].listeningPort : i \in 1..Len(servers)}
    \cup {th[u].arg.port : u \in {v \in Threads : th[v].pc \in {"s_lock", "s_append"}}}

\* Ports no open socket uses.
FreePorts == EphemeralPorts \ PortsInUse

\* The lowest of them.  The source compares ports for equality only, so a
\* run in which the operating system hands out the free ports in another
\* order is this run with the ports renamed.
LowestFreePort == {p \in FreePorts : \A q \in FreePorts : p <= q}

\* A caller enters Start: s := &server{...} with an empty channel map.
StartCall(t, fiveTuple) ==
  /\ Alive /\ Free(t)
  /\ Len(servers) + Cardinality(Starting) < MaxServers
  /\ th' = [th EXCEPT ![t] = Enter("s_listen", "Start", [NoArgs EXCEPT !.ft = fiveTuple])]
  /\ UNCHANGED <<servers, serversLock, pumps, crashed>>

\* Start registering the allocation before it looks at the error of
\* stun.NewTransportAddr.
StartListenRegistering(t, ports) ==
  /\ Alive /\ th[t].pc = "s_listen"
  /\ \/ Return(t, [port |-> 0, err |-> "listen"]) /\ UNCHANGED servers
     \/ \E p \in ports :
          \/ /\ Return(t, [port |-> 0, err |-> "addr"])
             /\ servers' = Append(servers, NewServer(th[t].arg.ft, p))
          \/ /\ th' = [th EXCEPT ![t].pc = "s_lock", ![t].arg.port = p]
             /\ UNCHANGED servers
  /\ UNCHANGED <<serversLock, pumps, crashed>>

\* net.ListenPacket("udp", ":0") fails and Start returns the error, or it
\* binds a port no open socket uses; stun.NewTransportAddr then fails and
\* Start returns that error, or it yields the listening port.  ports is the
\* set the operating system chooses from.
StartListen(t, ports) ==
  /\ Alive /\ th[t].pc = "s_listen"
  /\ \/ Return(t, [port |-> 0, err |-> "listen"])
     \/ \E p \in ports :
          \/ Return(t, [port |-> 0, err |-> "addr"])
          \/ th' = [th EXCEPT ![t].pc = "s_lock", ![t].arg.port = p]
  /\ UNCHANGED <<servers, serversLock, pumps, crashed>>

\* serversLock.Lock()
StartLock(t) ==
  /\ Alive /\ th[t].pc = "s_lock"
  /\ CanLock
  /\ serversLock' = [serversLock EXCEPT !.w = t]
  /\ th' = [th EXCEPT ![t].pc = "s_append"]
  /\ UNCHANGED <<servers, pumps, crashed>>

\* Start putting its server in the place of a registered allocation with a
\* matching five-tuple, when there is one, instead of appending.
StartAppendReplacing(t) ==
  /\ Alive /\ th[t].pc = "s_append"
  /\ LET old == getServer(servers, th[t].arg.ft) IN
       IF old = Nil
       THEN /\ servers' = Append(servers, NewServer(th[t].arg.ft, th[t].arg.port))
            /\ th' = [th EXCEPT ![t].pc = "s_unlock", ![t].s = Len(servers) + 1]
       ELSE /\ servers' = [servers EXCEPT ![old] = NewServer(th[t].arg.ft, th[t].arg.port)]
            /\ th' = [th EXCEPT ![t].pc = "s_unlock", ![t].s = old]
  /\ UNCHANGED <<serversLock, pumps, crashed>>

\* servers = append(servers, s)
StartAppend(t) ==
  /\ Alive /\ th[t].pc = "s_append"
  /\ servers' = Append(servers, NewServer(th[t].arg.ft, th[t].arg.port))
  /\ th' = [th EXCEPT ![t].pc = "s_unlock", ![t].s = Len(servers) + 1]
  /\ UNCHANGED <<serversLock, pumps, crashed>>

\* serversLock.Unlock()
StartUnlock(t) ==
  /\ Alive /\ th[t].pc = "s_unlock"
  /\ serversLock' = [serversLock EXCEPT !.w = NoThread]
  /\ th' = [th EXCEPT ![t].pc = "s_go"]
  /\ UNCHANGED <<servers, pumps, crashed>>

\* Start handing the pump the newest entry of the registry instead of its
\* own s.
StartGoLastServer(t) ==
  /\ Alive /\ th[t].pc = "s_go"
  /\ pumps' = Append(pumps, [s |-> Len(servers), rcvd |-> <<>>, sent |-> <<>>,
                             sendErrs |-> 0, errs |-> 0])
  /\ Return(t, [port |-> th[t].arg.port, err |-> None])
  /\ UNCHANGED <<servers, serversLock, crashed>>

\* go relayHandler(s, listener); return listeningPort, nil
StartGo(t) ==
  /\ Alive /\ th[t].pc = "s_go"
  /\ pumps' = Append(pumps, [s |-> th[t].s, rcvd |-> <<>>, sent |-> <<>>,
                             sendErrs |-> 0, errs |-> 0])
  /\ Return(t, [port |-> th[t].arg.port, err |-> None])
  /\ UNCHANGED <<servers, serversLock, crashed>>

\* --------------------------------------------------- getServer / Fulfilled

\* Fulfilled up to the scan: getServer takes serversLock.RLock().
FulfilledCall(t, fiveTuple) ==
  /\ Alive /\ Free(t)
  /\ CanRLock
  /\ serversLock' = RLocked(t)
  /\ th' = [th EXCEPT ![t] =
              [Enter("f_scan", "Fulfilled", [NoArgs EXCEPT !.ft = fiveTuple])
                 EXCEPT !.pre = (\E i \in 1..Len(servers) : match(fiveTuple, servers[i].FiveTuple))]]
  /\ UNCHANGED <<servers, pumps, crashed>>

\* The loop of getServer, return getServer(fiveTuple) != nil, and the
\* deferred RUnlock.
FulfilledReturn(t) ==
  /\ Alive /\ th[t].pc = "f_scan"
  /\ serversLock' = RUnlocked(t)
  /\ th' = [th EXCEPT ![t].pc = "ret",
                      ![t].s = getServer(servers, th[t].arg.ft),
                      ![t].res = (getServer(servers, th[t].arg.ft) # Nil)]
  /\ UNCHANGED <<servers, pumps, crashed>>

\* ------------------------------------------------------------ AddPermission

\* AddPermission up to the scan: getServer takes serversLock.RLock().
AddPermissionCall(t, fiveTuple, permission) ==
  /\ Alive /\ Free(t)
  /\ CanRLock
  /\ serversLock' = RLocked(t)
  /\ th' = [th EXCEPT ![t] =
              Enter("ap_scan", "AddPermission",
                    [NoArgs EXCEPT !.ft = fiveTuple, !.perm = permission])]
  /\ UNCHANGED <<servers, pumps, crashed>>

\* The loop of getServer; serversLock.RUnlock(); if s == nil return the error.
AddPermissionUnlock(t) ==
  /\ Alive /\ th[t].pc = "ap_scan"
  /\ serversLock' = RUnlocked(t)
  /\ LET s == getServer(servers, th[t].arg.ft) IN
       IF s = Nil
       THEN Return(t, "Unable to add permission, server not found")
       ELSE th' = [th EXCEPT ![t].pc = "ap_plock", ![t].s = s]
  /\ UNCHANGED <<servers, pumps, crashed>>

\* s.permissionsLock.Lock()
AddPermissionLock(t) ==
  /\ Alive /\ th[t].pc = "ap_plock"
  /\ servers[th[t].s].permissionsLock = NoThread
  /\ servers' = [servers EXCEPT ![th[t].s].permissionsLock = t]
  /\ th' = [th EXCEPT ![t].pc = "ap_add"]
  /\ UNCHANGED <<serversLock, pumps, crashed>>

\* The dedup loop, the append, return nil and the deferred Unlock.
AddPermissionAdd(t) ==
  /\ Alive /\ th[t].pc = "ap_add"
  /\ servers' = [servers EXCEPT
                   ![th[t].s].permissions = PermissionsAfterAdd(@, th[t].arg.perm),
                   ![th[t].s].permissionsLock = NoThread]
  /\ Return(t, None)
  /\ UNCHANGED <<serversLock, pumps, crashed>>

\* ------------------------------------------- GetSrcForRelay / GetRelayForSrc

\* serversLock.RLock() of GetSrcForRelay; the query is the port of addr.
GetSrcForRelayCall(t, port) ==
  /\ Alive /\ Free(t)
  /\ CanRLock
  /\ serversLock' = RLocked(t)
  /\ th' = [th EXCEPT ![t] =
              Enter("gsr_scan", "GetSrcForRelay", [NoArgs EXCEPT !.port = port])]
  /\ UNCHANGED <<servers, pumps, crashed>>

\* The scan, the return and the deferred RUnlock.
GetSrcForRelayReturn(t) ==
  /\ Alive /\ th[t].pc = "gsr_scan"
  /\ serversLock' = RUnlocked(t)
  /\ Return(t, SrcForRelay(servers, th[t].arg.port))
  /\ UNCHANGED <<servers, pumps, crashed>>

\* serversLock.RLock() of GetRelayForSrc.
GetRelayForSrcCall(t, addr) ==
  /\ Alive /\ Free(t)
  /\ CanRLock
  /\ serversLock' = RLocked(t)
  /\ th' = [th EXCEPT ![t] =
              Enter("grs_scan", "GetRelayForSrc", [NoArgs EXCEPT !.addr = addr])]
  /\ UNCHANGED <<servers, pumps, crashed>>

\* The scan, the return and the deferred RUnlock.
GetRelayForSrcReturn(t) ==
  /\ Alive /\ th[t].pc = "grs_scan"
  /\ serversLock' = RUnlocked(t)
  /\ Return(t, RelayForSrc(servers, th[t].arg.addr))
  /\ UNCHANGED <<servers, pumps, crashed>>

\* ------------------------------------------- AddChannelBind / GetChannelBind

\* serversLock.RLock() of AddChannelBind and the loop up to the first entry
\* listening on relayPort.
AddChannelBindCall(t, relayPort, channel, dstAddr) ==
  /\ Alive /\ Free(t)
  /\ CanRLock
  /\ serversLock' = RLocked(t)
  /\ th' = [th EXCEPT ![t] =
              [Enter("acb_loop", "AddChannelBind",
                     [NoArgs EXCEPT !.port = relayPort, !.ch = channel, !.addr = dstAddr])
                 EXCEPT !.s = NextOnPort(servers, relayPort, 1),
                        !.pre = (\E i \in 1..Len(servers) :
                                   /\ servers[i].listeningPort = relayPort
                                   /\ channel \in DOMAIN servers[i].channelBindings
                                   /\ servers[i].channelBindings[channel].addr # dstAddr)]]
  /\ UNCHANGED <<servers, pumps, crashed>>

\* The map assignment s.channelBindings[channel] = ... begins: no lock of the
\* allocation is taken, the thread holds the registry read lock only.
AddChannelBindWriteBegin(t) ==
  /\ Alive /\ th[t].pc = "acb_loop" /\ th[t].s # Nil
  /\ th' = [th EXCEPT ![t].pc = "acb_writing"]
  /\ UNCHANGED <<servers, serversLock, pumps, crashed>>

\* The map assignment completes; the loop goes on to the next entry on the port.
AddChannelBindWriteEnd(t) ==
  /\ Alive /\ th[t].pc = "acb_writing"
  /\ servers' = [servers EXCEPT ![th[t].s].channelBindings =
                   MapSet(@, th[t].arg.ch, th[t].arg.addr)]
  /\ th' = [th EXCEPT ![t].pc = "acb_loop",
                      ![t].s = NextOnPort(servers, th[t].arg.port, th[t].s + 1)]
  /\ UNCHANGED <<serversLock, pumps, crashed>>

\* AddChannelBind reporting an unknown relay port the way AddPermission
\* reports an unknown five-tuple.
AddChannelBindReturnStrict(t) ==
  /\ Alive /\ th[t].pc = "acb_loop" /\ th[t].s = Nil
  /\ serversLock' = RUnlocked(t)
  /\ Return(t, IF NextOnPort(servers, th[t].arg.port, 1) = Nil
               THEN "Unable to bind channel, server not found" ELSE None)
  /\ UNCHANGED <<servers, pumps, crashed>>

\* The loop is over: return nil and the deferred RUnlock.
AddChannelBindReturn(t) ==
  /\ Alive /\ th[t].pc = "acb_loop" /\ th[t].s = Nil
  /\ serversLock' = RUnlocked(t)
  /\ Return(t, None)
  /\ UNCHANGED <<servers, pumps, crashed>>

\* serversLock.RLock() of GetChannelBind.
GetChannelBindCall(t, srcPort, channel) ==
  /\ Alive /\ Free(t)
  /\ CanRLock
  /\ serversLock' = RLocked(t)
  /\ th' = [th EXCEPT ![t] =
              Enter("gcb_scan", "GetChannelBind",
                    [NoArgs EXCEPT !.port = srcPort, !.ch = channel])]
  /\ UNCHANGED <<servers, pumps, crashed>>

\* The scan, the return and the deferred RUnlock.
GetChannelBindReturn(t) ==
  /\ Alive /\ th[t].pc = "gcb_scan"
  /\ serversLock' = RUnlocked(t)
  /\ Return(t, ChannelBindOf(servers, th[t].arg.port, th[t].arg.ch))
  /\ UNCHANGED <<servers, pumps, crashed>>

\* Thread t is inside an access to the channel map of allocation i: a write in
\* progress, or a GetChannelBind scan (which reads the maps of the entries).
WritesMap(t, i) == th[t].pc = "acb_writing" /\ th[t].s = i
ReadsMap(t, i) == th[t].pc = "gcb_scan" /\ i \in 1..Len(servers)

\* Two threads are inside the same map and one of them writes: a data race.
MapRace(t, u) ==
  \E i \in 1..Len(servers) :
    /\ WritesMap(u, i)
    /\ WritesMap(t, i) \/ ReadsMap(t, i)

\* The Go runtime's check on an unsynchronised map access fires ("concurrent
\* map writes", "concurrent map read and map write"): the process dies.  The
\* check is best effort, so the race may also go unnoticed.
MapFatal(t) ==
  /\ Alive
  /\ \E u \in Threads \ {t} : MapRace(t, u)
  /\ crashed' = TRUE
  /\ UNCHANGED <<servers, serversLock, th, pumps>>

\* ------------------------------------------------------------ relayHandler

\* Datagrams and read errors the pumps have consumed so far.
RECURSIVE ReadsFrom(_)
ReadsFrom(k) ==
  IF k = 0 THEN 0 ELSE Len(pumps[k].rcvd) + pumps[k].errs + ReadsFrom(k - 1)

Delivered == ReadsFrom(Len(pumps))

\* One turn of the loop with a successful l.ReadFrom(buffer): a datagram of
\* len bytes from srcAddr is read into the buffer and sent on as a Data
\* indication; the result of stun.BuildAndSend is discarded.
PumpRelay(k, srcAddr, len) ==
  /\ Alive /\ k \in 1..Len(pumps)
  /\ Delivered < MaxDatagrams
  /\ pumps' = [pumps EXCEPT
                 ![k].rcvd = Append(@, [from |-> srcAddr, len |-> len]),
                 ![k].sent = Append(@, Indication(pumps[k].s, srcAddr, ReadLen(len)))]
  /\ UNCHANGED <<servers, serversLock, th, crashed>>

\* One turn of the loop in which stun.BuildAndSend returns an error: the
\* datagram is read and the indication built as before, the error is
\* assigned to the blank identifier and the loop goes on.
PumpSendError(k, srcAddr, len) ==
  /\ Alive /\ k \in 1..Len(pumps)
  /\ Delivered < MaxDatagrams
  /\ pumps' = [pumps EXCEPT
                 ![k].rcvd = Append(@, [from |-> srcAddr, len |-> len]),
                 ![k].sent = Append(@, Indication(pumps[k].s, srcAddr, ReadLen(len))),
                 ![k].sendErrs = @ + 1]
  /\ UNCHANGED <<servers, serversLock, th, crashed>>

\* One turn of the loop with a failing l.ReadFrom(buffer): srcAddr is nil, the
\* failure is printed and the loop body goes on to srcAddr.(*net.UDPAddr),
\* which panics on the nil interface; the panic of a goroutine ends the process.
PumpReadError(k) ==
  /\ Alive /\ k \in 1..Len(pumps)
  /\ Delivered < MaxDatagrams
  /\ pumps' = [pumps EXCEPT ![k].errs = @ + 1]
  /\ crashed' = TRUE
  /\ UNCHANGED <<servers, serversLock, th>>

\* ------------------------------------------------------------ specification

\* The steps of Start, called by the threads callers with the five-tuples
\* fts; anyPort says whether the socket gets any free port or the lowest.
StartSteps(callers, fts, anyPort) ==
  \/ \E t \in callers, ft \in fts : StartCall(t, ft)
  \/ \E t \in callers : StartListen(t, IF anyPort THEN FreePorts ELSE LowestFreePort)
  \/ \E t \in callers : StartLock(t)
  \/ \E t \in callers : StartAppend(t)
  \/ \E t \in callers : StartUnlock(t)
  \/ \E t \in callers : StartGo(t)

\* The steps of Fulfilled, GetSrcForRelay and GetRelayForSrc, called with
\* the five-tuples fts, the relay ports ports and the source addresses addrs.
LookupSteps(fts, ports, addrs) ==
  \/ \E t \in Threads, ft \in fts : FulfilledCall(t, ft)
  \/ \E t \in Threads : FulfilledReturn(t)
  \/ \E t \in Threads, p \in ports : GetSrcForRelayCall(t, p)
  \/ \E t \in Threads : GetSrcForRelayReturn(t)
  \/ \E t \in Threads, a \in addrs : GetRelayForSrcCall(t, a)
  \/ \E t \in Threads : GetRelayForSrcReturn(t)

RegistrySteps == LookupSteps(FiveTuples, QueryPorts, SrcAddrs)

\* The steps of AddPermission, called with the pairs grants of a five-tuple
\* and a permission.
PermissionSteps(grants) ==
  \/ \E t \in Threads, g \in grants : AddPermissionCall(t, g[1], g[2])
  \/ \E t \in Threads : AddPermissionUnlock(t)
  \/ \E t \in Threads : AddPermissionLock(t)
  \/ \E t \in Threads : AddPermissionAdd(t)

\* The steps of AddChannelBind, called with the relay ports ports, the
\* channels chs and the peers peers, and the runtime's fatal error on a race.
BindSteps(ports, chs, peers) ==
  \/ \E t \in Threads, p \in ports, c \in chs, a \in peers :
       AddChannelBindCall(t, p, c, a)
  \/ \E t \in Threads : AddChannelBindWriteBegin(t)
  \/ \E t \in Threads : AddChannelBindWriteEnd(t)
  \/ \E t \in Threads : AddChannelBindReturn(t)
  \/ \E t \in Threads : MapFatal(t)

\* The steps of GetChannelBind, called with the peer ports ports and the
\* channels chs.
ResolveSteps(ports, chs) ==
  \/ \E t \in Threads, p \in ports, c \in chs : GetChannelBindCall(t, p, c)
  \/ \E t \in Threads : GetChannelBindReturn(t)

\* The steps of AddChannelBind and GetChannelBind, called with the channels chs.
ChannelSteps(chs) ==
  BindSteps(QueryPorts, chs, BoundPeers) \/ ResolveSteps(PeerPorts, chs)

\* The turns of the relayHandler goroutines, with datagrams of the sizes
\* lens from the peers senders.
RelaySteps(senders, lens) ==
  \/ \E k \in 1..MaxServers, a \in senders, n \in lens : PumpRelay(k, a, n)
  \/ \E k \in 1..MaxServers, a \in senders, n \in lens : PumpSendError(k, a, n)
  \/ \E k \in 1..MaxServers : PumpReadError(k)

PumpSteps == RelaySteps(Senders, PayloadLens)

\* Every operation, called concurrently, with the pumps running.
Next ==
  \/ StartSteps(Threads, FiveTuples, TRUE)
  \/ RegistrySteps
  \/ PermissionSteps(FiveTuples \X Permissions)
  \/ ChannelSteps(Channels)
  \/ PumpSteps

Spec == Init /\ [][Next]_vars

\* Callers create allocations, concurrently and on any free port, and query
\* the registry.
NextRegistry == StartSteps(Threads, FiveTuples, TRUE) \/ RegistrySteps

SpecRegistry == Init /\ [][NextRegistry]_vars

\* One caller creates allocations while it and the other grant permissions.
NextPermission == StartSteps(Allocator, TwoClients, FALSE) \/ PermissionSteps(ClientGrants)

SpecPermission == Init /\ [][NextPermission]_vars

\* One caller creates allocations while it and the other bind and resolve
\* channels.
NextChannel == StartSteps(Allocator, TwoClients, FALSE) \/ ChannelSteps({16384})

SpecChannel == Init /\ [][NextChannel]_vars

\* Every public operation, called concurrently by both callers for one
\* client, one permission and one channel.
NextAll ==
  \/ StartSteps(Threads, {FT(Client1, Server1, UDP)}, TRUE)
  \/ LookupSteps({FT(Client1, Server1, UDP)}, FirstPort, {Client1})
  \/ PermissionSteps({<<FT(Client1, Server1, UDP), Perm("198.51.100.1", 9000, 300)>>})
  \/ BindSteps(FirstPort, {16384}, {Peer1})
  \/ ResolveSteps({Peer1.Port}, {16384})

SpecAll == Init /\ [][NextAll]_vars

\* The steps by which thread t goes on with the call it is in, the lock
\* acquisitions apart.
Continue(t) ==
  \/ StartListen(t, FreePorts) \/ StartAppend(t) \/ StartUnlock(t) \/ StartGo(t)
  \/ FulfilledReturn(t)
  \/ AddPermissionUnlock(t) \/ AddPermissionAdd(t)
  \/ GetSrcForRelayReturn(t) \/ GetRelayForSrcReturn(t)
  \/ AddChannelBindWriteBegin(t) \/ AddChannelBindWriteEnd(t) \/ AddChannelBindReturn(t)
  \/ GetChannelBindReturn(t)

\* The same operations under the scheduling the Go runtime gives: a goroutine
\* that can run does run (weak fairness of its steps), and a goroutine blocked
\* in Lock() gets the mutex if it keeps becoming free (sync.RWMutex holds back
\* new readers for a blocked writer, sync.Mutex hands over to a starved
\* waiter: strong fairness of the acquisitions).  Whether a caller makes
\* another call is up to the caller.
SpecAllFair ==
  /\ SpecAll
  /\ \A t \in Threads :
       /\ WF_vars(Continue(t))
       /\ SF_vars(StartLock(t))
       /\ SF_vars(AddPermissionLock(t))

\* One caller creates allocations while the other binds and re-binds
\* channels, one call after the other.
NextRebind ==
  \/ StartSteps(Allocator, {FT(Client1, Server1, UDP)}, FALSE)
  \/ \E t \in Threads \ Allocator, p \in EphemeralPorts, c \in Channels, a \in BoundPeers :
       AddChannelBindCall(t, p, c, a)
  \/ \E t \in Threads : AddChannelBindWriteBegin(t)
  \/ \E t \in Threads : AddChannelBindWriteEnd(t)
  \/ \E t \in Threads : AddChannelBindReturn(t)

SpecRebind == Init /\ [][NextRebind]_vars

\* One caller creates allocations while it and the other call Fulfilled and
\* the operations that write to an allocation, and one peer sends datagrams
\* to the allocations.
NextLife ==
  \/ StartSteps(Allocator, {FT(Client1, Server1, UDP)}, FALSE)
  \/ \E t \in Threads : FulfilledCall(t, FT(Client1, Server1, UDP))
  \/ \E t \in Threads : FulfilledReturn(t)
  \/ PermissionSteps({<<FT(Client1, Server1, UDP), Perm("198.51.100.1", 9000, 300)>>})
  \/ BindSteps(FirstPort, {16384}, {Peer1})
  \/ RelaySteps({Peer1}, {RtpMTU})

SpecLife == Init /\ [][NextLife]_vars

\* Callers create allocations and peers send datagrams to them.
NextPump == StartSteps(Threads, TwoClients, TRUE) \/ PumpSteps

SpecPump == Init /\ [][NextPump]_vars

\* ================================================================== claims

\* Thread t has returned from a call of op and has not made another call.
Returned(t, op) == th[t].pc = "ret" /\ th[t].op = op

\* This step is thread t returning from a call of op.
Returns(t, op) == th[t].pc # "ret" /\ th'[t].pc = "ret" /\ th'[t].op = op

\* This step is a step of thread t inside a call of op (entering it included).
StepsIn(t, op) == th'[t] # th[t] /\ th'[t].op = op

\* Two five-tuples with equal source address, destination address and protocol.
SameTuple(a, b) ==
  /\ a.SrcAddr.IP = b.SrcAddr.IP /\ a.SrcAddr.Port = b.SrcAddr.Port
  /\ a.DstAddr.IP = b.DstAddr.IP /\ a.DstAddr.Port = b.DstAddr.Port
  /\ a.Protocol = b.Protocol

\* Some Start with a five-tuple matching ft has appended to the registry.
Registered(ft) == \E i \in 1..Len(servers) : SameTuple(servers[i].FiveTuple, ft)

\* C1: a Fulfilled call that returns true has a matching allocation in the
\* registry (so it returns false while no matching Start has appended), and
\* a Fulfilled call that began when a matching allocation was registered, as
\* it is once a matching Start has returned, returns true; in every
\* interleaving of Start and Fulfilled.
C1_FulfilledTracksStart ==
  \A t \in Threads :
    Returned(t, "Fulfilled") =>
      /\ th[t].res => Registered(th[t].arg.ft)
      /\ th[t].pre => th[t].res

\* A Start has returned its port and a Fulfilled of the same five-tuple, begun
\* with the allocation registered, has returned true, while another
\* five-tuple is still unregistered.
C1_Witness ==
  \E t, u \in Threads :
    /\ Returned(t, "Start") /\ th[t].res.err = None
    /\ Returned(u, "Fulfilled") /\ th[u].arg.ft = th[t].arg.ft
    /\ th[u].pre /\ th[u].res
    /\ \E ft \in FiveTuples : ~Registered(ft)

\* The client source address of every registered allocation resolves to a
\* relay port, and that port resolves back to an equal address.
RoundTrips(i) ==
  LET src == servers[i].FiveTuple.SrcAddr
      r == RelayForSrc(servers, src)
  IN /\ r.err = None
     /\ SrcForRelay(servers, r.val).err = None
     /\ SrcForRelay(servers, r.val).val.IP = src.IP
     /\ SrcForRelay(servers, r.val).val.Port = src.Port

\* C4: for every allocation A in the registry, GetRelayForSrc(A.SrcAddr)
\* succeeds with a port p and GetSrcForRelay(p) succeeds with an address equal
\* to A.SrcAddr, also when allocations share a client source address.
C4_RelayRoundTrip == \A i \in 1..Len(servers) : RoundTrips(i)

\* Two allocations share a client source address, a caller has resolved that
\* address to a relay port and another has resolved the port back.
C4_Witness ==
  /\ \E i, j \in 1..Len(servers) :
       i # j /\ servers[i].FiveTuple.SrcAddr = servers[j].FiveTuple.SrcAddr
  /\ \E t, u \in Threads :
       /\ Returned(t, "GetRelayForSrc") /\ th[t].res.err = None
       /\ servers[2].FiveTuple.SrcAddr = th[t].arg.addr
       /\ Returned(u, "GetSrcForRelay") /\ th[u].arg.port = th[t].res.val
       /\ th[u].res.err = None /\ th[u].res.val = th[t].arg.addr

\* C6: GetSrcForRelay returns an error exactly when no registered allocation
\* listens on the queried port, GetRelayForSrc returns an error exactly when
\* no registered allocation has the queried client source address, and no
\* step of either lookup changes the registry or the pumps.
C6_LookupErrors ==
  [][ \A t \in Threads :
        /\ Returns(t, "GetSrcForRelay") =>
             ( (th'[t].res.err # None) <=>
               ~ \E i \in 1..Len(servers) : servers[i].listeningPort = th[t].arg.port )
        /\ Returns(t, "GetRelayForSrc") =>
             ( (th'[t].res.err # None) <=>
               ~ \E i \in 1..Len(servers) :
                   /\ servers[i].FiveTuple.SrcAddr.IP = th[t].arg.addr.IP
                   /\ servers[i].FiveTuple.SrcAddr.Port = th[t].arg.addr.Port )
        /\ (StepsIn(t, "GetSrcForRelay") \/ StepsIn(t, "GetRelayForSrc")) =>
             UNCHANGED <<servers, pumps, crashed>>
    ]_vars

\* With an allocation registered, one lookup has failed on a port nobody
\* listens on and the other has succeeded on a registered source address.
C6_Witness ==
  /\ Len(servers) > 0
  /\ \E t, u \in Threads :
       /\ Returned(t, "GetSrcForRelay") /\ th[t].res.err # None
       /\ Returned(u, "GetRelayForSrc") /\ th[u].res.err = None

\* C7: the registry holds at most one allocation per matching five-tuple.
C7_OneAllocationPerFiveTuple ==
  \A i, j \in 1..Len(servers) :
    i # j => ~SameTuple(servers[i].FiveTuple, servers[j].FiveTuple)

\* The entries of a permission list for the peer (ip, port).
EntriesFor(perms, ip, port) ==
  {k \in 1..Len(perms) : perms[k].IP = ip /\ perms[k].Port = port}

\* No permission list holds two entries with equal (IP, Port).
NoDuplicatePermission(srvs) ==
  \A i \in 1..Len(srvs) :
    \A k \in 1..Len(srvs[i].permissions) :
      Cardinality(EntriesFor(srvs[i].permissions,
                             srvs[i].permissions[k].IP,
                             srvs[i].permissions[k].Port)) = 1

\* C2: AddPermission is idempotent.  After every step no allocation's
\* permission list holds two entries with equal (IP, Port); no step changes
\* or removes an entry that is stored, its TimeToExpiry included; and when
\* AddPermission returns nil the target allocation holds exactly one entry for
\* the (IP, Port) of the call, whether or not the pair was already stored and
\* whichever calls ran concurrently.
C2_AddPermissionIdempotent ==
  [][ /\ NoDuplicatePermission(servers')
      /\ \A i \in 1..Len(servers) :
           \A k \in 1..Len(servers[i].permissions) :
             /\ Len(servers'[i].permissions) >= k
             /\ servers'[i].permissions[k] = servers[i].permissions[k]
      /\ \A t \in Threads :
           (Returns(t, "AddPermission") /\ th'[t].res = None) =>
             Cardinality(EntriesFor(servers'[th[t].s].permissions,
                                    th[t].arg.perm.IP, th[t].arg.perm.Port)) = 1
    ]_vars

\* An AddPermission has returned nil for a peer whose stored entry carries
\* another TimeToExpiry than the call did, in a list of two entries.
C2_Witness ==
  \E t \in Threads :
    /\ Returned(t, "AddPermission") /\ th[t].res = None
    /\ Len(servers[th[t].s].permissions) = 2
    /\ \E k \in 1..2 :
         /\ servers[th[t].s].permissions[k].IP = th[t].arg.perm.IP
         /\ servers[th[t].s].permissions[k].Port = th[t].arg.perm.Port
         /\ servers[th[t].s].permissions[k].TimeToExpiry # th[t].arg.perm.TimeToExpiry

\* C5: AddPermission returns an error exactly when no registered allocation
\* matches the five-tuple, and a call that returns the error changes nothing:
\* neither the registry nor any permission list or channel map, nor a pump.
C5_AddPermissionNotFound ==
  [][ \A t \in Threads :
        /\ Returns(t, "AddPermission") =>
             ( (th'[t].res # None) <=> ~Registered(th[t].arg.ft) )
        /\ (StepsIn(t, "AddPermission") /\ ~Registered(th'[t].arg.ft)) =>
             UNCHANGED <<servers, pumps, crashed>>
    ]_vars

\* With one five-tuple registered, an AddPermission for the other one has
\* returned the error and one for the registered one has returned nil.
C5_Witness ==
  /\ Len(servers) > 0
  /\ \E t, u \in Threads :
       /\ Returned(t, "AddPermission") /\ th[t].res # None
       /\ ~Registered(th[t].arg.ft)
       /\ Returned(u, "AddPermission") /\ th[u].res = None

\* Some registered allocation listens on port.
Listening(port) == \E i \in 1..Len(servers) : servers[i].listeningPort = port

\* C3: after AddChannelBind(relay port of allocation A, channel c, peer P) has
\* returned, and while c is still bound to P in A, GetChannelBind(P.Port, c)
\* returns (A's client source address, true), whatever else is registered
\* and bound.
C3_BindThenResolve ==
  \A t \in Threads :
    Returned(t, "AddChannelBind") =>
      \A i \in 1..Len(servers) :
        ( /\ servers[i].listeningPort = th[t].arg.port
          /\ th[t].arg.ch \in DOMAIN servers[i].channelBindings
          /\ servers[i].channelBindings[th[t].arg.ch].addr = th[t].arg.addr )
        => /\ ChannelBindOf(servers, th[t].arg.addr.Port, th[t].arg.ch).ok
           /\ ChannelBindOf(servers, th[t].arg.addr.Port, th[t].arg.ch).val
                = servers[i].FiveTuple.SrcAddr

\* C10: AddChannelBind never returns an error, and no step of a call whose
\* relay port no registered allocation listens on changes the registry, a
\* channel map, a permission list or a pump.
C10_AddChannelBindUnknownPort ==
  [][ \A t \in Threads :
        /\ Returns(t, "AddChannelBind") => th'[t].res = None
        /\ (StepsIn(t, "AddChannelBind") /\ ~Listening(th'[t].arg.port)) =>
             UNCHANGED <<servers, pumps, crashed>>
    ]_vars

\* With an allocation registered, an AddChannelBind on a port nobody listens
\* on has returned nil, and no channel is bound anywhere.
C10_Witness ==
  /\ Len(servers) > 0
  /\ \E t \in Threads :
       /\ Returned(t, "AddChannelBind") /\ th[t].res = None
       /\ ~Listening(th[t].arg.port)
  /\ \A i \in 1..Len(servers) : DOMAIN servers[i].channelBindings = {}

\* C8: a failed read on the relayed socket is only reported: after it the
\* pump, and the process, are still running.
C8_ReadErrorKeepsRunning ==
  \A k \in 1..Len(pumps) : pumps[k].errs > 0 => ~crashed

\* C9: for every datagram a pump has read there is exactly one indication,
\* in the order of the reads, addressed to the client source address of the
\* pump's allocation, whose peer address is the sender's IP and port and whose
\* data is the payload of the datagram; permissions and channel bindings play
\* no part.
C9_OneIndicationPerDatagram ==
  \A k \in 1..Len(pumps) :
    /\ Len(pumps[k].sent) = Len(pumps[k].rcvd)
    /\ \A j \in 1..Len(pumps[k].rcvd) :
         /\ pumps[k].sent[j].to = servers[pumps[k].s].FiveTuple.SrcAddr
         /\ pumps[k].sent[j].class = "indication"
         /\ pumps[k].sent[j].method = "data"
         /\ pumps[k].sent[j].peer.IP = pumps[k].rcvd[j].from.IP
         /\ pumps[k].sent[j].peer.Port = pumps[k].rcvd[j].from.Port
         /\ pumps[k].sent[j].data = pumps[k].rcvd[j].len

\* C11: accesses to one allocation's channel map are serialized: no two
\* threads are inside the same allocation's channelBindings at once with one
\* of them writing.
C11_ChannelMapSerialized ==
  \A t, u \in Threads : t # u => ~MapRace(t, u)

\* Thread t is inside a scan of the registry slice.
Scanning(t) ==
  th[t].pc \in {"f_scan", "ap_scan", "gsr_scan", "grs_scan",
                "acb_loop", "acb_writing", "gcb_scan"}

\* Thread t is between serversLock.Lock() and serversLock.Unlock() of Start.
InAppend(t) == th[t].pc \in {"s_append", "s_unlock"}

\* C12: the registry slice grows only in a step of a thread that holds
\* serversLock exclusively, with no scan in progress; a thread is inside a
\* scan exactly while it holds the lock shared, and between Lock and Unlock
\* exactly while it holds it exclusively; an append never overlaps a scan; and
\* a thread that has returned from any operation, on any return path, holds
\* the lock in neither mode.
C12_RegistryLockDiscipline ==
  [][ /\ Len(servers') # Len(servers) =>
           /\ serversLock.w \in Threads /\ th[serversLock.w].pc = "s_append"
           /\ serversLock.r = {}
           /\ \A u \in Threads : ~Scanning(u)
      /\ serversLock'.r = {t \in Threads : Scanning(t)'}
      /\ \A t \in Threads : InAppend(t)' <=> serversLock'.w = t
      /\ \A t, u \in Threads : ~(InAppend(t)' /\ Scanning(u)')
      /\ \A t \in Threads :
           th'[t].pc = "ret" => (t \notin serversLock'.r /\ serversLock'.w # t)
    ]_vars

\* With an allocation registered, a Start that has bound its socket waits
\* for the exclusive lock while another caller's scan holds the lock shared.
C12_Witness ==
  /\ Len(servers) > 0
  /\ \E t, u \in Threads :
       /\ th[t].pc = "s_lock" /\ ~CanLock
       /\ Scanning(u) /\ u \in serversLock.r

\* Thread t is inside a call that has not returned.
InCall(t) == th[t].pc \notin {"idle", "ret"}

\* Thread t holds, or waits for, the permissionsLock of an allocation.
AtPermissionsLock(t) == th[t].pc \in {"ap_plock", "ap_add"}

\* Thread t holds serversLock, shared or exclusive.
HoldsServersLock(t) == t \in serversLock.r \/ serversLock.w = t

\* C13: no thread holds serversLock while it holds or waits for an
\* allocation's permissionsLock, and every call in progress eventually
\* returns.
C13_NoDeadlock ==
  /\ [](\A t \in Threads : ~(AtPermissionsLock(t) /\ HoldsServersLock(t)))
  /\ \A t \in Threads : InCall(t) ~> (th[t].pc = "ret")

\* What the locks alone decide: every call in progress eventually returns
\* or the process has died.
CallsReturnWhileAlive ==
  \A t \in Threads : InCall(t) ~> (th[t].pc = "ret" \/ crashed)

\* The lock order alone.
LockOrder == \A t \in Threads : ~(AtPermissionsLock(t) /\ HoldsServersLock(t))

\* The registered allocations whose five-tuple equals ft.
Matching(ft) == {i \in 1..Len(servers) : SameTuple(servers[i].FiveTuple, ft)}

\* C14: the allocation AddPermission resolves under the read lock is the
\* last matching one in insertion order, also when several match, and the
\* call adds the permission to that allocation only: when it returns nil the
\* resolved allocation holds an entry for the peer and the permission list of
\* every other allocation, the earlier matching ones included, is unchanged.
C14_AddPermissionLastMatch ==
  [][ \A t \in Threads :
        /\ (th[t].pc = "ap_scan" /\ th'[t].pc = "ap_plock") =>
             /\ th'[t].s \in Matching(th[t].arg.ft)
             /\ \A j \in Matching(th[t].arg.ft) : j <= th'[t].s
        /\ (Returns(t, "AddPermission") /\ th'[t].res = None) =>
             /\ EntriesFor(servers'[th[t].s].permissions,
                           th[t].arg.perm.IP, th[t].arg.perm.Port) # {}
             /\ \A i \in 1..Len(servers) :
                  i # th[t].s => servers'[i].permissions = servers[i].permissions
    ]_vars

\* Two allocations match the five-tuple of an AddPermission that has returned
\* nil: the later one holds the permission, the earlier one holds none.
C14_Witness ==
  \E t \in Threads :
    /\ Returned(t, "AddPermission") /\ th[t].res = None
    /\ Matching(th[t].arg.ft) = {1, 2}
    /\ th[t].s = 2
    /\ servers[2].permissions = <<th[t].arg.perm>>
    /\ servers[1].permissions = <<>>

\* The registered allocations that have channel ch bound to a peer address
\* with port port.
Qualifying(port, ch) ==
  {i \in 1..Len(servers) :
     /\ ch \in DOMAIN servers[i].channelBindings
     /\ servers[i].channelBindings[ch].addr.Port = port}

\* C15: GetChannelBind(srcPort, channel) returns found = true exactly when
\* some registered allocation has the channel bound to a peer whose port is
\* srcPort, whatever the peer's IP and the allocation's relay port; the
\* address returned is then the client source address of the earliest such
\* allocation, and nil otherwise; and no step of the call changes an
\* allocation or a pump.
C15_GetChannelBindFirstMatch ==
  [][ \A t \in Threads :
        /\ Returns(t, "GetChannelBind") =>
             LET Q == Qualifying(th[t].arg.port, th[t].arg.ch) IN
               /\ th'[t].res.ok <=> Q # {}
               /\ Q = {} => th'[t].res.val = NilAddr
               /\ \A i \in Q :
                    (\A j \in Q : i <= j) =>
                      th'[t].res.val = servers[i].FiveTuple.SrcAddr
        /\ StepsIn(t, "GetChannelBind") => UNCHANGED <<servers, pumps, crashed>>
    ]_vars

\* Two allocations of different clients have the channel bound to a peer
\* with the queried port, and GetChannelBind has returned the source address
\* of the earlier one.
C15_Witness ==
  \E t \in Threads :
    /\ Returned(t, "GetChannelBind") /\ th[t].res.ok
    /\ Qualifying(th[t].arg.port, th[t].arg.ch) = {1, 2}
    /\ servers[1].FiveTuple.SrcAddr # servers[2].FiveTuple.SrcAddr
    /\ th[t].res.val = servers[1].FiveTuple.SrcAddr

\* Channel c is bound in allocation i of srvs to the address a.
BoundTo(srvs, i, c, a) ==
  c \in DOMAIN srvs[i].channelBindings /\ srvs[i].channelBindings[c].addr = a

\* Allocation i has the same binding, or none, for channel c in this state
\* and the next.
SameBinding(i, c) ==
  /\ (c \in DOMAIN servers'[i].channelBindings) <=> (c \in DOMAIN servers[i].channelBindings)
  /\ c \in DOMAIN servers[i].channelBindings =>
       servers'[i].channelBindings[c] = servers[i].channelBindings[c]

\* C16: when AddChannelBind(p, c, P) returns, every allocation listening on p
\* has c bound to P, whatever c was bound to before; and no step of the call
\* changes the binding of another channel, or any binding of an allocation
\* listening on another port.
C16_RebindOverwrites ==
  [][ \A t \in Threads :
        /\ Returns(t, "AddChannelBind") =>
             \A i \in 1..Len(servers) :
               servers[i].listeningPort = th[t].arg.port =>
                 BoundTo(servers', i, th[t].arg.ch, th[t].arg.addr)
        /\ StepsIn(t, "AddChannelBind") =>
             \A i \in 1..Len(servers), c \in Channels :
               (servers[i].listeningPort # th'[t].arg.port \/ c # th'[t].arg.ch) =>
                 SameBinding(i, c)
    ]_vars

\* An AddChannelBind that found the channel bound to another address has
\* returned: the channel is bound to the address of the call, the other
\* channel of the allocation is still bound, and so is the channel on an
\* allocation listening on another port.
C16_Witness ==
  \E t \in Threads :
    /\ Returned(t, "AddChannelBind") /\ th[t].pre
    /\ \E i, j \in 1..Len(servers) :
         /\ servers[i].listeningPort = th[t].arg.port
         /\ BoundTo(servers, i, th[t].arg.ch, th[t].arg.addr)
         /\ DOMAIN servers[i].channelBindings = Channels
         /\ j # i
         /\ th[t].arg.ch \in DOMAIN servers[j].channelBindings
         /\ servers[j].channelBindings[th[t].arg.ch].addr # th[t].arg.addr

\* C17: a Start that returns an error, from the bind or from the address
\* conversion, has appended no allocation and started no pump: no step of the
\* call up to and including the failing return changes the registry, an
\* allocation or the pumps, so Fulfilled of every five-tuple is as before.
C17_FailedStartChangesNothing ==
  [][ \A t \in Threads :
        /\ (Returns(t, "Start") /\ th'[t].res.err # None) =>
             /\ th[t].s = Nil
             /\ UNCHANGED <<servers, pumps>>
             /\ \A ft \in FiveTuples : Registered(ft)' <=> Registered(ft)
        /\ (StepsIn(t, "Start") /\ th'[t].pc = "s_listen") =>
             UNCHANGED <<servers, pumps>>
    ]_vars

\* With another allocation registered, a Start has failed in the address
\* conversion and a Fulfilled of its five-tuple has returned false.
C17_Witness ==
  /\ Len(servers) > 0
  /\ \E t, u \in Threads :
       /\ Returned(t, "Start") /\ th[t].res.err = "addr"
       /\ ~Registered(th[t].arg.ft)
       /\ Returned(u, "Fulfilled") /\ th[u].arg.ft = th[t].arg.ft
       /\ ~th[u].res

\* Every pump runs for a registered allocation and no allocation has two.
OnePumpPerAllocation(srvs, pmps) ==
  /\ \A k \in 1..Len(pmps) : pmps[k].s \in 1..Len(srvs)
  /\ \A k, l \in 1..Len(pmps) : k # l => pmps[k].s # pmps[l].s

\* C18: the append of a Start adds exactly one allocation to the end of the
\* registry, with the five-tuple of the call, an empty permission list and an
\* empty channel map; a Start that returns without error returns the
\* listeningPort of the allocation it appended and, in that step, starts one
\* pump, for that allocation, which is already registered; and after every
\* step each pump's allocation is registered and no allocation has two pumps.
C18_StartRegistersThenPumps ==
  [][ /\ \A t \in Threads :
           (th[t].pc = "s_append" /\ th'[t].pc = "s_unlock") =>
             /\ Len(servers') = Len(servers) + 1
             /\ SubSeq(servers', 1, Len(servers)) = servers
             /\ SameTuple(servers'[Len(servers')].FiveTuple, th[t].arg.ft)
             /\ servers'[Len(servers')].permissions = <<>>
             /\ DOMAIN servers'[Len(servers')].channelBindings = {}
             /\ th'[t].s = Len(servers')
      /\ \A t \in Threads :
           (Returns(t, "Start") /\ th'[t].res.err = None) =>
             /\ th[t].s \in 1..Len(servers)
             /\ servers[th[t].s].listeningPort = th'[t].res.port
             /\ Len(pumps') = Len(pumps) + 1
             /\ SubSeq(pumps', 1, Len(pumps)) = pumps
             /\ pumps'[Len(pumps')].s = th[t].s
      /\ Len(pumps') # Len(pumps) =>
           \E t \in Threads : Returns(t, "Start") /\ th'[t].res.err = None
      /\ OnePumpPerAllocation(servers', pumps')
    ]_vars

\* Two concurrent Starts have both returned their ports; the pump of the
\* allocation appended second was started first.
C18_Witness ==
  /\ Len(servers) = 2 /\ Len(pumps) = 2
  /\ pumps[1].s = 2 /\ pumps[2].s = 1
  /\ \A t \in Threads :
       /\ Returned(t, "Start") /\ th[t].res.err = None
       /\ servers[th[t].s].listeningPort = th[t].res.port

\* C19: the registry is append-only.  Over every step, of any operation or
\* pump, each registered allocation stays at its index with its five-tuple
\* and listeningPort, so a registered five-tuple stays registered and a
\* Fulfilled that returns once the five-tuple is registered returns true; no
\* pump goes away or changes its allocation; and a turn of a pump in which
\* the send to the client fails changes no allocation and leaves the process,
\* and so the pump, running.
C19_RegistryAppendOnly ==
  [][ /\ Len(servers') >= Len(servers)
      /\ \A i \in 1..Len(servers) :
           /\ SameTuple(servers'[i].FiveTuple, servers[i].FiveTuple)
           /\ servers'[i].listeningPort = servers[i].listeningPort
      /\ \A ft \in FiveTuples : Registered(ft) => Registered(ft)'
      /\ \A t \in Threads :
           (Returns(t, "Fulfilled") /\ Registered(th[t].arg.ft)) => th'[t].res
      /\ Len(pumps') >= Len(pumps)
      /\ \A k \in 1..Len(pumps) :
           /\ pumps'[k].s = pumps[k].s
           /\ pumps'[k].sendErrs # pumps[k].sendErrs =>
                /\ servers' = servers
                /\ Len(pumps') = Len(pumps)
                /\ ~crashed'
    ]_vars

\* A pump has read two datagrams and the send of one of them has failed: its
\* allocation is registered, a Fulfilled of its five-tuple has returned true,
\* a later allocation has been appended behind it and the process runs.
C19_Witness ==
  /\ ~crashed
  /\ Len(servers) = 2
  /\ \E k \in 1..Len(pumps) :
       /\ pumps[k].s = 1
       /\ pumps[k].sendErrs = 1 /\ Len(pumps[k].rcvd) = 2
  /\ \E t \in Threads :
       /\ Returned(t, "Fulfilled") /\ th[t].res
       /\ SameTuple(th[t].arg.ft, servers[1].FiveTuple)

\* The registered allocations with client source address addr.
WithSrc(addr) ==
  {i \in 1..Len(servers) :
     /\ servers[i].FiveTuple.SrcAddr.IP = addr.IP
     /\ servers[i].FiveTuple.SrcAddr.Port = addr.Port}

\* The registered allocations listening on port.
OnPort(port) == {i \in 1..Len(servers) : servers[i].listeningPort = port}

\* C20: a GetRelayForSrc that succeeds returns the listeningPort of the
\* earliest-registered allocation with the source address, a GetSrcForRelay
\* that succeeds the source address of the earliest-registered allocation on
\* the port; and no step that changes the registry, the append of a further
\* allocation included, changes what either lookup yields for an address or
\* a port that resolves.
C20_LookupsFirstMatch ==
  [][ /\ \A t \in Threads :
           (Returns(t, "GetRelayForSrc") /\ th'[t].res.err = None) =>
             \A i \in WithSrc(th[t].arg.addr) :
               (\A j \in WithSrc(th[t].arg.addr) : i <= j) =>
                 th'[t].res.val = servers[i].listeningPort
      /\ \A t \in Threads :
           (Returns(t, "GetSrcForRelay") /\ th'[t].res.err = None) =>
             \A i \in OnPort(th[t].arg.port) :
               (\A j \in OnPort(th[t].arg.port) : i <= j) =>
                 th'[t].res.val = servers[i].FiveTuple.SrcAddr
      /\ servers' # servers =>
           /\ \A a \in SrcAddrs :
                LET before == RelayForSrc(servers, a) IN
                  before.err = None => RelayForSrc(servers', a) = before
           /\ \A p \in QueryPorts :
                LET before == SrcForRelay(servers, p) IN
                  before.err = None => SrcForRelay(servers', p) = before
    ]_vars

\* Two allocations share a client source address, the later one created by
\* a Start that has returned, and a GetRelayForSrc of that address has
\* returned the listeningPort of the first.
C20_Witness ==
  /\ Len(servers) = 2
  /\ WithSrc(servers[1].FiveTuple.SrcAddr) = {1, 2}
  /\ \E t, u \in Threads :
       /\ Returned(u, "Start") /\ th[u].res.err = None /\ th[u].s = 2
       /\ Returned(t, "GetRelayForSrc") /\ th[t].res.err = None
       /\ th[t].arg.addr = servers[1].FiveTuple.SrcAddr
       /\ th[t].res.val = servers[1].listeningPort
       /\ th[t].res.val # servers[2].listeningPort

====
